---- MODULE Spec2Model ----
(***************************************************************************)
(* State-machine model of scripts/kobo_drm_poc.py: the key search of       *)
(* main() and the archive transcoder decrypt_book(), together with the     *)
(* pure helpers pkcs7_unpad and the plaintext signature check.             *)
(*                                                                         *)
(* Bytes are integers 0..255 and buffers are sequences of bytes.  AES and  *)
(* SHA-256 are modelled symbolically: a ciphertext records the key that    *)
(* decrypts it and the plaintext it decrypts to, and decrypting under any  *)
(* other key yields a fixed garbage buffer of the same length.             *)
(***************************************************************************)
EXTENDS Integers, Sequences, FiniteSets, TLC

VARIABLES
    content_keys,     \* main: content_keys, as the ordered rows <<elementId, elementKey>>
    zip_in,           \* the source archive: sequence of [name, data]
    pc,               \* position of main()
    hash_idx,         \* index into KOBO_HASH_KEYS of the loop of main()
    user_key,         \* main: user_key of the current iteration
    success,          \* main: success
    decrypted_keys,   \* decrypt_book: decrypted_keys, rows <<elementId, key>>
    entry_idx,        \* decrypt_book: position in zip_in.infolist()
    zip_out,          \* the destination archive: sequence of [name, data]
    files_decrypted,  \* decrypt_book: files_decrypted
    files_copied,     \* decrypt_book: files_copied
    tried,            \* history: seeds for which derive_user_key has run
    accepted,         \* history: seeds that reached "SUCCESS with hash key"
    handed,           \* history: user keys passed to decrypt_book
    book,             \* history: state of the latest decrypt_book call
    fallbacks,        \* history: entries written by the except branch of decrypt_book
    io_faults,        \* history: number of I/O errors raised by the archive so far
    pbuf,             \* helper pipeline: the decrypted buffer under test
    ppc,              \* helper pipeline: position
    punp,             \* helper pipeline: result of pkcs7_unpad
    pacc              \* helper pipeline: result of the signature check

vars == <<content_keys, zip_in, pc, hash_idx, user_key, success, decrypted_keys,
          entry_idx, zip_out, files_decrypted, files_copied, tried, accepted,
          handed, book, fallbacks, io_faults, pbuf, ppc, punp, pacc>>

mainVars == <<content_keys, zip_in, pc, hash_idx, user_key, success, decrypted_keys,
              entry_idx, zip_out, files_decrypted, files_copied, tried, accepted,
              handed, book, fallbacks, io_faults>>

pureVars == <<pbuf, ppc, punp, pacc>>

----------------------------------------------------------------------------
(* Bounds of the model.                                                    *)

MaxKeys == 2         \* rows of the content-key table
MaxEntries == 2      \* entries of the source archive
MaxIOFaults == 1     \* I/O errors the archive raises in one run
MaxBlocks == 7       \* cipher blocks of a buffer given to the helper pipeline

----------------------------------------------------------------------------
(* Program constants.                                                      *)

KOBO_HASH_KEYS == <<"88b3a2e13", "XzUhGYdFp", "NoCanLook", "QJhwzAtXL">>

BlockSize == 16      \* AES block length (AES.MODE_ECB)
TextWindow == 100    \* decrypted[:100]
JpegWindow == 10     \* decrypted[:10]

XML_SIG == <<60, 63, 120, 109, 108>>      \* b"<?xml"
HTML_SIG == <<60, 104, 116, 109, 108>>    \* b"<html"
JPEG_SIG == <<255, 216, 255>>             \* b"\xff\xd8\xff"

Serial == "N905B12345"
UserId == "abc123"

----------------------------------------------------------------------------
(* Python values.                                                          *)

Min(a, b) == IF a < b THEN a ELSE b
Max(a, b) == IF a > b THEN a ELSE b

\* The outcome of a call: a value, or an exception.
Ok(v) == [ok |-> TRUE, val |-> v]
Raised == [ok |-> FALSE, val |-> <<>>]

\* data[:n] for n >= 0
SliceTo(data, n) == SubSeq(data, 1, Min(n, Len(data)))

\* data[:-n] for n >= 0: -0 is 0, so data[:-0] is data[:0]; a stop before
\* the start of the buffer is clipped to the start.
SliceToNeg(data, n) ==
    IF n = 0 THEN <<>> ELSE SubSeq(data, 1, Max(Len(data) - n, 0))

\* sub in data, for bytes
BytesIn(sub, data) ==
    \E i \in 0..(Len(data) - Len(sub)) : SubSeq(data, i + 1, i + Len(sub)) = sub

\* file_path.replace("\\", "/") on a name given as a sequence of characters
Normalize(name) == [i \in 1..Len(name) |-> IF name[i] = "\\" THEN "/" ELSE name[i]]

----------------------------------------------------------------------------
(* Helpers of the script.                                                  *)

\* derive_user_key: two SHA-256 rounds, modelled as an injective pairing of
\* (hash_key + serial) with user_id.
derive_user_key(serial, user_id, hash_key) ==
    [device |-> <<hash_key, serial>>, user |-> user_id]

\* The key that AES yields when a wrapped key is decrypted under a master
\* key other than the one that wrapped it.
WrongKey == "wrong"

\* decrypt_content_key: base64.b64decode raises on a malformed string,
\* cipher.decrypt raises on a length that is no multiple of the block size.
decrypt_content_key(encrypted_key_b64, master_key) ==
    IF ~encrypted_key_b64.b64ok THEN Raised
    ELSE IF encrypted_key_b64.len % BlockSize # 0 THEN Raised
    ELSE IF encrypted_key_b64.mk = master_key THEN Ok(encrypted_key_b64.ck)
    ELSE Ok(WrongKey)

\* pkcs7_unpad: data[-1] raises IndexError on an empty buffer.
pkcs7_unpad(data) ==
    IF Len(data) = 0 THEN Raised
    ELSE Ok(SliceToNeg(data, data[Len(data)]))

\* What AES yields for a ciphertext of n bytes under a key that did not
\* encrypt it: n bytes unrelated to any plaintext (here all 0xA7).
Garbage(n) == [i \in 1..n |-> 167]

\* cipher.decrypt of decrypt_file_content
aes_decrypt(encrypted_content, content_key) ==
    IF Len(encrypted_content.bytes) % BlockSize # 0 THEN Raised
    ELSE IF encrypted_content.key = content_key /\ content_key # WrongKey
         THEN Ok(encrypted_content.bytes)
         ELSE Ok(Garbage(Len(encrypted_content.bytes)))

decrypt_file_content(encrypted_content, content_key) ==
    LET d == aes_decrypt(encrypted_content, content_key)
    IN  IF d.ok THEN pkcs7_unpad(d.val) ELSE Raised

has_signature_prefix_only(decrypted) ==
    \/ SliceTo(decrypted, Len(XML_SIG)) = XML_SIG
    \/ SliceTo(decrypted, Len(HTML_SIG)) = HTML_SIG
    \/ SliceTo(decrypted, Len(JPEG_SIG)) = JPEG_SIG

\* The condition of the if of main() on the decrypted buffer.
has_signature(decrypted) ==
    \/ BytesIn(XML_SIG, SliceTo(decrypted, TextWindow))
    \/ BytesIn(HTML_SIG, SliceTo(decrypted, TextWindow))
    \/ BytesIn(JPEG_SIG, SliceTo(decrypted, JpegWindow))

----------------------------------------------------------------------------
(* Inputs of a run: the content-key table and the source archive.          *)

\* Entry names, as sequences of characters.
Names == { <<"a">>, <<"d", "/", "b">>, <<"d", "\\", "b">> }

ContentKeyIds == {"ck1"}

\* No key: the payload of an entry that is stored unencrypted.
NoKey == "none"

\* Master keys that wrapped the content keys of a table: the one derived
\* from the second listed seed, and one derived from a seed that is not listed.
WrappingKeys ==
    { derive_user_key(Serial, UserId, KOBO_HASH_KEYS[2]),
      derive_user_key(Serial, UserId, "unlisted") }

\* An elementKey: whether the string is well-formed base64, the length of
\* the buffer it decodes to, the master key that wrapped it and the content
\* key it wraps.
ElementKey(b64ok, len, mk, ck) == [b64ok |-> b64ok, len |-> len, mk |-> mk, ck |-> ck]

\* elementKey values: a truncated base64 string, the base64 of a buffer that
\* is no whole number of blocks, and the base64 of a wrapped content key.
ElementKeys ==
    { ElementKey(FALSE, BlockSize, derive_user_key(Serial, UserId, KOBO_HASH_KEYS[2]), "ck1"),
      ElementKey(TRUE, BlockSize - 1, derive_user_key(Serial, UserId, KOBO_HASH_KEYS[2]), "ck1") }
    \cup
    { ElementKey(TRUE, BlockSize, m, c) : m \in WrappingKeys, c \in ContentKeyIds }

\* b"<html" followed by text, PKCS7-padded to one block.
PlainHtml == HTML_SIG \o <<98, 111, 100, 121, 98, 111, 100, 121>> \o <<3, 3, 3>>

\* Entry payloads: an encrypted HTML file, an unencrypted file whose length
\* is no multiple of the block size, and an empty file.
Payloads ==
    { [key |-> c, bytes |-> PlainHtml] : c \in ContentKeyIds }
    \cup
    { [key |-> NoKey, bytes |-> [i \in 1..(BlockSize - 1) |-> 97]],
      [key |-> NoKey, bytes |-> <<>>] }

\* The sequences of at most n elements of S
SeqsUpTo(S, n) == UNION { [1..k -> S] : k \in 0..n }

\* get_content_keys builds a dict: the element ids of its rows are distinct.
Tables ==
    { t \in SeqsUpTo([id : Names, key : ElementKeys], MaxKeys) :
        \A i, j \in 1..Len(t) : t[i].id = t[j].id => i = j }

\* A flat archive: entry name -> bytes, in stored order.
Archives ==
    { a \in SeqsUpTo([name : Names, data : Payloads], MaxEntries) :
        \A i, j \in 1..Len(a) : a[i].name = a[j].name => i = j }

----------------------------------------------------------------------------
(* Dictionaries and the archive reader.                                    *)

\* k in d, for a dict given as rows [id, key]
DictHas(d, k) == \E i \in 1..Len(d) : d[i].id = k

\* d[k]
DictGet(d, k) == d[CHOOSE i \in 1..Len(d) : d[i].id = k].key

\* z.read(name): KeyError when the archive has no entry of that name
HasEntry(archive, name) == \E i \in 1..Len(archive) : archive[i].name = name

ReadEntry(archive, name) ==
    archive[CHOOSE i \in 1..Len(archive) : archive[i].name = name].data

\* The bytes written for a decrypted entry: stored in the clear.
Plain(bytes) == [key |-> NoKey, bytes |-> bytes]

----------------------------------------------------------------------------
(* Initial states.                                                         *)

PureIdle ==
    /\ pbuf = <<>>
    /\ ppc = "idle"
    /\ punp = Raised
    /\ pacc = FALSE

\* main() before its try block, for every table and archive of the bounds.
Init ==
    /\ content_keys \in Tables
    /\ zip_in \in Archives
    /\ pc = "start"
    /\ hash_idx = 1
    /\ user_key = derive_user_key(Serial, UserId, "")
    /\ success = FALSE
    /\ decrypted_keys = <<>>
    /\ entry_idx = 1
    /\ zip_out = <<>>
    /\ files_decrypted = 0
    /\ files_copied = 0
    /\ tried = <<>>
    /\ accepted = <<>>
    /\ handed = <<>>
    /\ book = "none"
    /\ fallbacks = {}
    /\ io_faults = 0
    /\ PureIdle

----------------------------------------------------------------------------
(* main(): steps 1 to 3.                                                   *)

\* get_device_serial or get_user_id raises: the outer except ends the run.
StartFatal ==
    /\ pc = "start"
    /\ pc' = "fatal"
    /\ UNCHANGED <<content_keys, zip_in, hash_idx, user_key, success, decrypted_keys,
                   entry_idx, zip_out, files_decrypted, files_copied, tried,
                   accepted, handed, book, fallbacks, io_faults>>
    /\ UNCHANGED pureVars

\* if not content_keys: sys.exit(1)
StartNoKeys ==
    /\ pc = "start"
    /\ content_keys = <<>>
    /\ pc' = "nokeys"
    /\ UNCHANGED <<content_keys, zip_in, hash_idx, user_key, success, decrypted_keys,
                   entry_idx, zip_out, files_decrypted, files_copied, tried,
                   accepted, handed, book, fallbacks, io_faults>>
    /\ UNCHANGED pureVars

\* success = False, and the for loop starts at the first hash key.
StartSearch ==
    /\ pc = "start"
    /\ content_keys # <<>>
    /\ pc' = "loop"
    /\ hash_idx' = 1
    /\ success' = FALSE
    /\ UNCHANGED <<content_keys, zip_in, user_key, decrypted_keys,
                   entry_idx, zip_out, files_decrypted, files_copied, tried,
                   accepted, handed, book, fallbacks, io_faults>>
    /\ UNCHANGED pureVars

----------------------------------------------------------------------------
(* main(): one iteration of the loop over KOBO_HASH_KEYS.                  *)

InLoop == pc = "loop" /\ hash_idx <= Len(KOBO_HASH_KEYS)

\* user_key of the iteration
IterKey == derive_user_key(Serial, UserId, KOBO_HASH_KEYS[hash_idx])

\* first_element, first_key_b64
first_element == content_keys[1].id
first_key_b64 == content_keys[1].key

\* The try block up to the if, when the archive raises no I/O error:
\* "raise", "reject" (no signature) or "accept".
Verify(key) ==
    LET k == decrypt_content_key(first_key_b64, key)
    IN  IF ~k.ok THEN "raise"
        ELSE IF ~HasEntry(zip_in, first_element) THEN "raise"
        ELSE LET d == decrypt_file_content(ReadEntry(zip_in, first_element), k.val)
             IN  IF ~d.ok THEN "raise"
                 ELSE IF has_signature(d.val) THEN "accept"
                 ELSE "reject"

\* The next iteration of the for loop.
next_seed_twice(i) == i + 2

next_seed(i) == i + 1

\* continue, or the end of the loop body without break
Continue ==
    /\ pc' = "loop"
    /\ hash_idx' = next_seed(hash_idx)

\* An exception of the verification reaches except Exception: continue.
TryRaise ==
    /\ InLoop
    /\ Verify(IterKey) = "raise"
    /\ user_key' = IterKey
    /\ tried' = Append(tried, KOBO_HASH_KEYS[hash_idx])
    /\ Continue
    /\ UNCHANGED <<content_keys, zip_in, success, decrypted_keys, entry_idx, zip_out,
                   files_decrypted, files_copied, accepted, handed, book, fallbacks,
                   io_faults>>
    /\ UNCHANGED pureVars

\* zipfile.ZipFile(INPUT_EPUB) or z.read raises an I/O error: it reaches the
\* same except Exception: continue.
TryIOFault ==
    /\ InLoop
    /\ io_faults < MaxIOFaults
    /\ decrypt_content_key(first_key_b64, IterKey).ok
    /\ io_faults' = io_faults + 1
    /\ user_key' = IterKey
    /\ tried' = Append(tried, KOBO_HASH_KEYS[hash_idx])
    /\ Continue
    /\ UNCHANGED <<content_keys, zip_in, success, decrypted_keys, entry_idx, zip_out,
                   files_decrypted, files_copied, accepted, handed, book, fallbacks>>
    /\ UNCHANGED pureVars

\* The signature check fails: the loop body ends and the loop goes on.
TryReject ==
    /\ InLoop
    /\ Verify(IterKey) = "reject"
    /\ user_key' = IterKey
    /\ tried' = Append(tried, KOBO_HASH_KEYS[hash_idx])
    /\ Continue
    /\ UNCHANGED <<content_keys, zip_in, success, decrypted_keys, entry_idx, zip_out,
                   files_decrypted, files_copied, accepted, handed, book, fallbacks,
                   io_faults>>
    /\ UNCHANGED pureVars

\* The signature check holds: decrypt_book is called with user_key.
TryAccept ==
    /\ InLoop
    /\ Verify(IterKey) = "accept"
    /\ user_key' = IterKey
    /\ tried' = Append(tried, KOBO_HASH_KEYS[hash_idx])
    /\ accepted' = Append(accepted, KOBO_HASH_KEYS[hash_idx])
    /\ handed' = Append(handed, IterKey)
    /\ book' = "running"
    /\ pc' = "book_keys"
    /\ UNCHANGED <<content_keys, zip_in, hash_idx, success, decrypted_keys, entry_idx,
                   zip_out, files_decrypted, files_copied, fallbacks, io_faults>>
    /\ UNCHANGED pureVars

\* The list is exhausted.
LoopEnd ==
    /\ pc = "loop"
    /\ hash_idx > Len(KOBO_HASH_KEYS)
    /\ pc' = "after_loop"
    /\ UNCHANGED <<content_keys, zip_in, hash_idx, user_key, success, decrypted_keys,
                   entry_idx, zip_out, files_decrypted, files_copied, tried,
                   accepted, handed, book, fallbacks, io_faults>>
    /\ UNCHANGED pureVars

\* if not success: sys.exit(1)
AfterLoopExhausted ==
    /\ pc = "after_loop"
    /\ ~success
    /\ pc' = "exhausted"
    /\ UNCHANGED <<content_keys, zip_in, hash_idx, user_key, success, decrypted_keys,
                   entry_idx, zip_out, files_decrypted, files_copied, tried,
                   accepted, handed, book, fallbacks, io_faults>>
    /\ UNCHANGED pureVars

\* "SUCCESS! Book decrypted successfully."
AfterLoopSuccess ==
    /\ pc = "after_loop"
    /\ success
    /\ pc' = "success"
    /\ UNCHANGED <<content_keys, zip_in, hash_idx, user_key, success, decrypted_keys,
                   entry_idx, zip_out, files_decrypted, files_copied, tried,
                   accepted, handed, book, fallbacks, io_faults>>
    /\ UNCHANGED pureVars

----------------------------------------------------------------------------
(* decrypt_book(INPUT_EPUB, OUTPUT_EPUB, user_key, content_keys).          *)

\* The loop over content_keys_map.items() raises at some row: the exception
\* leaves decrypt_book and reaches except Exception: continue of main().
BookKeysRaise ==
    /\ pc = "book_keys"
    /\ \E i \in 1..Len(content_keys) :
          ~decrypt_content_key(content_keys[i].key, user_key).ok
    /\ book' = "raised"
    /\ Continue
    /\ UNCHANGED <<content_keys, zip_in, user_key, success, decrypted_keys, entry_idx,
                   zip_out, files_decrypted, files_copied, tried, accepted, handed,
                   fallbacks, io_faults>>
    /\ UNCHANGED pureVars

\* Every content key decrypts; the counters are reset and both archives are
\* opened, the destination for writing.
BookKeysOk ==
    /\ pc = "book_keys"
    /\ \A i \in 1..Len(content_keys) :
          decrypt_content_key(content_keys[i].key, user_key).ok
    /\ decrypted_keys' =
          [i \in 1..Len(content_keys) |->
              [id |-> content_keys[i].id,
               key |-> decrypt_content_key(content_keys[i].key, user_key).val]]
    /\ files_decrypted' = 0
    /\ files_copied' = 0
    /\ zip_out' = <<>>
    /\ fallbacks' = {}
    /\ entry_idx' = 1
    /\ pc' = "book_entries"
    /\ UNCHANGED <<content_keys, zip_in, hash_idx, user_key, success, tried, accepted,
                   handed, book, io_faults>>
    /\ UNCHANGED pureVars

InEntries == pc = "book_entries" /\ entry_idx <= Len(zip_in)

\* file_info.filename, zip_in.read(file_path), normalized_path
file_path == zip_in[entry_idx].name
file_content == ReadEntry(zip_in, file_path)
normalized_path == Normalize(file_path)

\* if normalized_path in decrypted_keys
NeedsDecryption == DictHas(decrypted_keys, normalized_path)

\* decrypt_file_content(file_content, decrypted_keys[normalized_path])
decrypted_content ==
    decrypt_file_content(file_content, DictGet(decrypted_keys, normalized_path))

written_normalized(data) == [name |-> normalized_path, data |-> data]

\* zip_out.writestr(file_info, data): the entry keeps the name of file_info
writestr(data) == [name |-> file_path, data |-> data]

\* zip_in.read raises an I/O error: it leaves decrypt_book.
EntryReadFault ==
    /\ InEntries
    /\ io_faults < MaxIOFaults
    /\ io_faults' = io_faults + 1
    /\ book' = "raised"
    /\ Continue
    /\ UNCHANGED <<content_keys, zip_in, user_key, success, decrypted_keys, entry_idx,
                   zip_out, files_decrypted, files_copied, tried, accepted, handed,
                   fallbacks>>
    /\ UNCHANGED pureVars

\* The try branch: the entry is decrypted and written.
EntryDecrypted ==
    /\ InEntries
    /\ NeedsDecryption
    /\ decrypted_content.ok
    /\ zip_out' = Append(zip_out, writestr(Plain(decrypted_content.val)))
    /\ files_decrypted' = files_decrypted + 1
    /\ entry_idx' = entry_idx + 1
    /\ UNCHANGED <<content_keys, zip_in, pc, hash_idx, user_key, success,
                   decrypted_keys, files_copied, tried, accepted, handed, book,
                   fallbacks, io_faults>>
    /\ UNCHANGED pureVars

\* The except branch after decrypt_file_content raised: the original bytes
\* are written and no counter changes.
EntryDecryptFailed ==
    /\ InEntries
    /\ NeedsDecryption
    /\ ~decrypted_content.ok
    /\ zip_out' = Append(zip_out, writestr(file_content))
    /\ fallbacks' = fallbacks \cup {entry_idx}
    /\ entry_idx' = entry_idx + 1
    /\ UNCHANGED <<content_keys, zip_in, pc, hash_idx, user_key, success,
                   decrypted_keys, files_decrypted, files_copied, tried, accepted,
                   handed, book, io_faults>>
    /\ UNCHANGED pureVars

\* The except branch after writestr raised an I/O error inside the try (the
\* failed write leaves no entry): the original bytes are written.
EntryWriteFaultInTry ==
    /\ InEntries
    /\ NeedsDecryption
    /\ decrypted_content.ok
    /\ io_faults < MaxIOFaults
    /\ io_faults' = io_faults + 1
    /\ zip_out' = Append(zip_out, writestr(file_content))
    /\ fallbacks' = fallbacks \cup {entry_idx}
    /\ entry_idx' = entry_idx + 1
    /\ UNCHANGED <<content_keys, zip_in, pc, hash_idx, user_key, success,
                   decrypted_keys, files_decrypted, files_copied, tried, accepted,
                   handed, book>>
    /\ UNCHANGED pureVars

\* The else branch: the entry is copied as it is.
EntryCopied ==
    /\ InEntries
    /\ ~NeedsDecryption
    /\ zip_out' = Append(zip_out, writestr(file_content))
    /\ files_copied' = files_copied + 1
    /\ entry_idx' = entry_idx + 1
    /\ UNCHANGED <<content_keys, zip_in, pc, hash_idx, user_key, success,
                   decrypted_keys, files_decrypted, tried, accepted, handed, book,
                   fallbacks, io_faults>>
    /\ UNCHANGED pureVars

\* writestr raises an I/O error outside the try: in the else branch, or in
\* the except branch (there after one more I/O error when the first write
\* of the entry was the one that failed).  It leaves decrypt_book.
EntryWriteFault ==
    /\ InEntries
    /\ \E n \in 1..2 :
          /\ n = 2 <=> (NeedsDecryption /\ decrypted_content.ok)
          /\ io_faults + n <= MaxIOFaults
          /\ io_faults' = io_faults + n
    /\ book' = "raised"
    /\ Continue
    /\ UNCHANGED <<content_keys, zip_in, user_key, success, decrypted_keys, entry_idx,
                   zip_out, files_decrypted, files_copied, tried, accepted, handed,
                   fallbacks>>
    /\ UNCHANGED pureVars

\* The archives are closed, the summary is printed and decrypt_book returns;
\* main() sets success and breaks out of the loop.
BookDone ==
    /\ pc = "book_entries"
    /\ entry_idx > Len(zip_in)
    /\ book' = "done"
    /\ success' = TRUE
    /\ pc' = "after_loop"
    /\ UNCHANGED <<content_keys, zip_in, hash_idx, user_key, decrypted_keys, entry_idx,
                   zip_out, files_decrypted, files_copied, tried, accepted, handed,
                   fallbacks, io_faults>>
    /\ UNCHANGED pureVars

\* "Total files" of the summary
total_files == files_decrypted + files_copied

Next ==
    \/ StartFatal \/ StartNoKeys \/ StartSearch
    \/ TryRaise \/ TryIOFault \/ TryReject \/ TryAccept \/ LoopEnd
    \/ BookKeysRaise \/ BookKeysOk
    \/ EntryReadFault \/ EntryDecrypted \/ EntryDecryptFailed
    \/ EntryWriteFaultInTry \/ EntryCopied \/ EntryWriteFault \/ BookDone
    \/ AfterLoopExhausted \/ AfterLoopSuccess

Spec == Init /\ [][Next]_vars

----------------------------------------------------------------------------
(* The helper pipeline on its own: pkcs7_unpad on a decrypted buffer, as   *)
(* decrypt_file_content applies it, then the signature check of main().    *)

\* A buffer of the given number of blocks that holds sig at offset off, ends
\* with the byte last and is spaces elsewhere.
Buffer(blocks, sig, off, last) ==
    [i \in 1..(blocks * BlockSize) |->
        IF i = blocks * BlockSize THEN last
        ELSE IF i > off /\ i <= off + Len(sig) THEN sig[i - off]
        ELSE 32]

Signatures == {XML_SIG, HTML_SIG, JPEG_SIG}

\* Offsets around the start of the buffer and around the ends of both windows.
Offsets == {0, 1, JpegWindow - 3, JpegWindow - 2, TextWindow - 5, TextWindow - 4}

\* Values of the last byte: none, some, a whole block, more than the buffer.
LastBytes == {0, 1, 3, BlockSize, BlockSize + 1, 200}

Buffers ==
    { <<>> }
    \cup
    { Buffer(f[1], <<>>, 0, f[2]) :
        f \in { g \in (1..MaxBlocks) \X (0..255) :
                  g[2] \in LastBytes \/ g[2] = g[1] * BlockSize } }
    \cup
    { Buffer(f[1], f[2], f[3], f[4]) :
        f \in { g \in (1..MaxBlocks) \X Signatures \X Offsets \X LastBytes :
                  g[3] + Len(g[2]) < g[1] * BlockSize } }

InitPure ==
    /\ content_keys = <<>>
    /\ zip_in = <<>>
    /\ pc = "idle"
    /\ hash_idx = 1
    /\ user_key = derive_user_key(Serial, UserId, "")
    /\ success = FALSE
    /\ decrypted_keys = <<>>
    /\ entry_idx = 1
    /\ zip_out = <<>>
    /\ files_decrypted = 0
    /\ files_copied = 0
    /\ tried = <<>>
    /\ accepted = <<>>
    /\ handed = <<>>
    /\ book = "none"
    /\ fallbacks = {}
    /\ io_faults = 0
    /\ pbuf \in Buffers
    /\ ppc = "decrypted"
    /\ punp = Raised
    /\ pacc = FALSE

\* return pkcs7_unpad(decrypted_content)
ApplyUnpad ==
    /\ ppc = "decrypted"
    /\ punp' = pkcs7_unpad(pbuf)
    /\ ppc' = IF pkcs7_unpad(pbuf).ok THEN "unpadded" ELSE "raised"
    /\ UNCHANGED <<pbuf, pacc>>
    /\ UNCHANGED mainVars

\* the if of main() on the value decrypt_file_content returned
ApplyCheck ==
    /\ ppc = "unpadded"
    /\ pacc' = has_signature(punp.val)
    /\ ppc' = "checked"
    /\ UNCHANGED <<pbuf, punp>>
    /\ UNCHANGED mainVars

NextPure == ApplyUnpad \/ ApplyCheck

SpecPure == InitPure /\ [][NextPure]_vars

----------------------------------------------------------------------------
(* Properties of the helper pipeline (checked under SpecPure).             *)

\* Some recognized signature is a prefix of the buffer.
BeginsWithSignature(buf) ==
    \E sig \in Signatures :
        /\ Len(buf) >= Len(sig)
        /\ \A j \in 1..Len(sig) : buf[j] = sig[j]

\* The prefix window main() searches for a signature.
WindowOf(sig) == IF sig = JPEG_SIG THEN JpegWindow ELSE TextWindow

\* Some recognized signature lies, at some offset, wholly inside its prefix
\* window of the buffer.
SignatureInWindow(buf) ==
    \E sig \in Signatures : \E o \in 0..Len(buf) :
        /\ o + Len(sig) <= WindowOf(sig)
        /\ o + Len(sig) <= Len(buf)
        /\ \A j \in 1..Len(sig) : buf[o + j] = sig[j]

\* C7 as stated: the recovered buffer is accepted if and only if it begins
\* with one of the recognized signatures; a signature at a non-zero offset
\* is rejected.
C7_AcceptIffBeginsWithSignature ==
    ppc = "checked" => (pacc <=> BeginsWithSignature(punp.val))

\* C7 as amended: the recovered buffer is accepted if and only if "<?xml" or
\* "<html" lies wholly inside its first 100 bytes or FF D8 FF lies wholly
\* inside its first 10 bytes, at any offset.
C7_AcceptIffSignatureInWindow ==
    ppc = "checked" => (pacc <=> SignatureInWindow(punp.val))

\* A buffer is accepted although its signature is not at offset 0.
C7_Witness ==
    /\ ppc = "checked"
    /\ pacc
    /\ ~BeginsWithSignature(punp.val)

\* C8: for a non-empty buffer whose length is a multiple of the block size
\* and whose last byte N is at most its length, pkcs7_unpad returns the
\* first length - N bytes (the whole buffer when N = 0).
C8_UnpadRemovesLastN ==
    ( /\ ppc \in {"unpadded", "checked", "raised"}
      /\ Len(pbuf) > 0
      /\ Len(pbuf) % BlockSize = 0
      /\ pbuf[Len(pbuf)] <= Len(pbuf) )
    => punp = Ok(SubSeq(pbuf, 1, Len(pbuf) - pbuf[Len(pbuf)]))

----------------------------------------------------------------------------
(* Properties of the key search (checked under Spec).                      *)

KeyOf(seed) == derive_user_key(Serial, UserId, seed)

\* C3: the seeds are tried in list order, one step at a time; a seed whose
\* verification raises or whose signature check fails is not accepted and
\* the search moves on; every key handed to decrypt_book is the key of an
\* accepted seed, the first one that of the first accepted seed; and a run
\* in which no seed is accepted ends exhausted, after the whole list, with
\* decrypt_book never called.
C3_KeySearchResult ==
    /\ tried = SubSeq(KOBO_HASH_KEYS, 1, Len(tried))
    /\ pc = "loop" => hash_idx = Len(tried) + 1
    /\ \A i \in 1..Len(accepted) :
          /\ content_keys # <<>>
          /\ Verify(KeyOf(accepted[i])) = "accept"
    /\ \A i \in 1..Len(tried) :
          (Verify(KeyOf(tried[i])) = "accept" /\ io_faults = 0)
          => \E j \in 1..Len(accepted) : accepted[j] = tried[i]
    /\ Len(handed) = Len(accepted)
    /\ \A i \in 1..Len(handed) : handed[i] = KeyOf(accepted[i])
    /\ accepted = <<>> => (book = "none" /\ ~success /\ pc # "success")
    /\ pc \in {"after_loop", "exhausted"} /\ accepted = <<>> => tried = KOBO_HASH_KEYS
    /\ pc = "success" => handed # <<>>

\* The first seed was rejected, the second accepted, and the run succeeded
\* with the key of the second seed.
C3_Witness ==
    /\ pc = "success"
    /\ tried = SubSeq(KOBO_HASH_KEYS, 1, 2)
    /\ accepted = <<KOBO_HASH_KEYS[2]>>
    /\ handed = <<KeyOf(KOBO_HASH_KEYS[2])>>

\* C4: once a seed has been accepted no further seed is derived or
\* verified, and decrypt_book is called at most once.
C4_NoSearchAfterAccept ==
    accepted # <<>> =>
        /\ tried[Len(tried)] = accepted[1]
        /\ Len(handed) <= 1

\* C5: an I/O error of the archive ends the run at once as a fatal error;
\* it never makes the search move on and never ends the run exhausted.
C5_IOErrorsFatal ==
    /\ io_faults > 0 => pc = "fatal"
    /\ pc = "exhausted" => io_faults = 0

----------------------------------------------------------------------------
(* Properties of the transcoder (checked under Spec).                      *)

\* The key decrypt_book was last called with.
BookKey == handed[Len(handed)]

\* The table rows and the archive entries that belong together.
RowOfEntry(i) ==
    CHOOSE r \in 1..Len(content_keys) : content_keys[r].id = Normalize(zip_in[i].name)

EntryMatched(i) == DictHas(content_keys, Normalize(zip_in[i].name))

RowMatched(r) ==
    \E i \in 1..Len(zip_in) : Normalize(zip_in[i].name) = content_keys[r].id

\* What decrypting entry i with the content key of its row gives.
ExpectedPlain(i) ==
    LET k == decrypt_content_key(content_keys[RowOfEntry(i)].key, BookKey)
    IN  IF k.ok THEN decrypt_file_content(zip_in[i].data, k.val) ELSE Raised

\* The chain of row r fails: its key does not decode or decrypt, or the
\* payload of an entry of that name does not decrypt or unpad.
ChainFails(r) ==
    \/ ~decrypt_content_key(content_keys[r].key, BookKey).ok
    \/ \E i \in 1..Len(zip_in) :
          /\ Normalize(zip_in[i].name) = content_keys[r].id
          /\ ~ExpectedPlain(i).ok

\* C1: when the chain of exactly one table row fails, and that row has an
\* entry in the archive, decrypt_book still completes; the entry whose chain
\* fails is written with its original bytes and every other matched entry
\* is written decrypted.  (Stated of runs in which the archive raises no I/O
\* error.)
C1_PerEntryIsolation ==
    ( /\ book # "none"
      /\ io_faults = 0
      /\ Cardinality({r \in 1..Len(content_keys) : ChainFails(r)}) = 1
      /\ \A r \in 1..Len(content_keys) : ChainFails(r) => RowMatched(r) )
    => /\ book # "raised"
       /\ book = "done" =>
             \A i \in 1..Len(zip_in) :
                EntryMatched(i) =>
                   zip_out[i].data =
                      IF ExpectedPlain(i).ok THEN Plain(ExpectedPlain(i).val)
                      ELSE zip_in[i].data

\* C2: when decrypt_book completes, the destination holds as many entries
\* as the source, under the same names in the same order, and every entry
\* whose normalized name is no key of the table has the bytes of the source.
C2_TranscodeFidelity ==
    book = "done" =>
        /\ Len(zip_out) = Len(zip_in)
        /\ \A i \in 1..Len(zip_in) :
              /\ zip_out[i].name = zip_in[i].name
              /\ ~EntryMatched(i) => zip_out[i].data = zip_in[i].data

\* decrypt_book completed on a two-entry archive: one entry whose name has a
\* backslash was matched through its normalized name and written decrypted
\* under its original name, the other was not matched.
C2_Witness ==
    /\ book = "done"
    /\ Len(zip_in) = 2
    /\ \E i \in 1..2 :
          /\ Normalize(zip_in[i].name) # zip_in[i].name
          /\ EntryMatched(i)
          /\ zip_out[i].data # zip_in[i].data
    /\ \E i \in 1..2 : ~EntryMatched(i)

\* C6: when decrypt_book completes, every entry is counted once, so that
\* the reported total is the number of entries written; entries written by
\* the fallback are counted too.  (Stated of runs in which the archive
\* raises no I/O error.)
C6_ReportPartition ==
    (book = "done" /\ io_faults = 0) => total_files = Len(zip_out)

\* C9: content keys are decrypted one per matched entry, as the entries are
\* processed; so a table row that matches no entry of the archive is never
\* decoded, and decrypt_book cannot fail when the key of every row that
\* does match an entry decodes and decrypts.  (Stated of runs in which the
\* archive raises no I/O error.)
C9_LazyContentKeys ==
    ( /\ book # "none"
      /\ io_faults = 0
      /\ \A r \in 1..Len(content_keys) :
            RowMatched(r) =>
               decrypt_content_key(content_keys[r].key, BookKey).ok )
    => book # "raised"

\* C10: when the run reports success, the entry the verifier read (the one
\* named by the first key of the table) was written decrypted, and the
\* decrypted counter is at least 1.  (Stated of runs in which the archive
\* raises no I/O error.)
C10_DesignatedEntryDecrypted ==
    (pc = "success" /\ io_faults = 0) =>
        /\ files_decrypted >= 1
        /\ \E i \in 1..Len(zip_in) :
              /\ zip_in[i].name = first_element
              /\ i \notin fallbacks
              /\ zip_out[i].data # zip_in[i].data

====
